---- MODULE Spec2Model ----
(***************************************************************************)
(* Model of the Backlog MCP server (src/src/index.ts, latest revision of   *)
(* each request handler, and the prompt handlers of the second revision,   *)
(* which serve the aggregation prompt) and of its REST client              *)
(* (src/src/services/backlog-client.ts, latest revision).                  *)
(*                                                                         *)
(* A string is a sequence of atoms.  "/" and the decimal digits are atoms  *)
(* of one character; every other atom is a word without "/" that the       *)
(* inputs never split, so equal strings are equal sequences.  An object is *)
(* a function from property names to values.  A handler runs from its      *)
(* request to its first `await`, is suspended while the HTTP call is in    *)
(* flight, and runs from the reply to its response.  The aggregation       *)
(* prompt has several calls in flight at once, which settle in any order.  *)
(***************************************************************************)
EXTENDS Integers, Sequences, FiniteSets, TLC

VARIABLES
    backend,    \* the issue tracker's data: projects, issues, comments
    request,    \* the protocol request being handled
    pc,         \* "idle", "awaiting", "replied" or "done"
    outbound,   \* HTTP calls the server has issued for this request, in order
    reply,      \* the backend's answer to the last call
    response,   \* what the host receives for the request
    fanout,     \* the promises of the aggregation prompt's Promise.all
    listed      \* the resource list the host received last: "none", "current",
                \* or "outdated" once the tracker's project list has changed

vars == <<backend, request, pc, outbound, reply, response, fanout, listed>>

---------------------------------------------------------------------------
(* Bounds of the model.                                                    *)

MaxProjects == 2
MaxIssues == 2
MaxComments == 1
MaxCreated == 1

ProjectIds == 1..MaxProjects
IssueIds == 1..MaxIssues
CommentIds == 1..MaxComments

---------------------------------------------------------------------------
(* Strings and numbers.                                                    *)

Digits == <<"0", "1", "2", "3", "4", "5", "6", "7", "8", "9">>

IsDigit(a) == \E d \in 1..10 : Digits[d] = a

DigitVal(a) == (CHOOSE d \in 1..10 : Digits[d] = a) - 1

\* Number.prototype.toString() and `${n}` of a non-negative integer.
RECURSIVE NumToStr(_)
NumToStr(n) ==
    IF n < 10 THEN <<Digits[n + 1]>>
    ELSE NumToStr(n \div 10) \o <<Digits[(n % 10) + 1]>>

\* The number NaN (never an id: ids are positive).
NaN == 0 - 1

\* `${n}` of a number that may be NaN.
TemplateNum(n) == IF n = NaN THEN <<"NaN">> ELSE NumToStr(n)

RECURSIVE ParseDigits(_, _)
ParseDigits(s, acc) ==
    IF s = <<>> \/ ~IsDigit(Head(s)) THEN acc
    ELSE ParseDigits(Tail(s), acc * 10 + DigitVal(Head(s)))

\* parseInt(s): the leading decimal digits of s, NaN when there is none.
parseInt(s) ==
    IF s = <<>> \/ ~IsDigit(Head(s)) THEN NaN ELSE ParseDigits(s, 0)

\* JavaScript truthiness of a number / of a string.
TruthyNum(n) == n # 0 /\ n # NaN
TruthyStr(s) == s # <<>>

\* String.prototype.split('/').
RECURSIVE Split(_)
Split(s) ==
    IF s = <<>> THEN << <<>> >>
    ELSE IF Head(s) = "/" THEN << <<>> >> \o Split(Tail(s))
    ELSE LET r == Split(Tail(s))
         IN  << <<Head(s)>> \o Head(r) >> \o Tail(r)

\* String.prototype.slice(1) of a string whose first atom is one character.
Slice1(s) == IF s = <<>> THEN <<>> ELSE Tail(s)

RECURSIVE DropHost(_)
DropHost(s) == IF s = <<>> \/ Head(s) = "/" THEN s ELSE DropHost(Tail(s))

\* new URL(uri).pathname for a URI <<scheme, ...>> of a non-special scheme:
\* after "//" comes the host, up to the next "/"; the rest is the path.
Pathname(uri) ==
    LET rest == Tail(uri)
    IN  IF Len(rest) >= 2 /\ rest[1] = "/" /\ rest[2] = "/"
        THEN DropHost(SubSeq(rest, 3, Len(rest)))
        ELSE rest

Upper ==
    <<"A", "B", "C", "D", "E", "F", "G", "H", "I", "J", "K", "L", "M",
      "N", "O", "P", "Q", "R", "S", "T", "U", "V", "W", "X", "Y", "Z">>

Lower ==
    <<"a", "b", "c", "d", "e", "f", "g", "h", "i", "j", "k", "l", "m",
      "n", "o", "p", "q", "r", "s", "t", "u", "v", "w", "x", "y", "z">>

\* String.prototype.toLowerCase() of a string written character by character.
ToLowerCase(s) ==
    [i \in 1..Len(s) |->
        IF \E k \in 1..26 : Upper[k] = s[i]
        THEN Lower[CHOOSE k \in 1..26 : Upper[k] = s[i]]
        ELSE s[i]]

\* String.prototype.includes(t).
Includes(s, t) ==
    \E k \in 0..(Len(s) - Len(t)) : SubSeq(s, k + 1, k + Len(t)) = t

\* An object with no property, and { ...obj, key: value }.
EmptyObj == [k \in {} |-> 0]
Has(obj, k) == k \in DOMAIN obj
Spread(obj, k, v) == (k :> v) @@ obj

---------------------------------------------------------------------------
(* The issue tracker's data (src/src/types/backlog.ts).                    *)

ProjectKeyOf(i) == <<"P">> \o NumToStr(i)

ProjectOf(i) ==
    [id |-> i,
     projectKey |-> ProjectKeyOf(i),
     name |-> <<"Name">> \o NumToStr(i),
     description |-> IF i % 2 = 1 THEN <<"about">> ELSE <<>>]

IssueOf(i, p, summary, description) ==
    [id |-> i,
     projectId |-> p,
     issueKey |-> ProjectKeyOf(p) \o <<"-">> \o NumToStr(i),
     summary |-> summary,
     description |-> description,
     status |-> [id |-> 1, name |-> <<"Open">>]]

CommentOf(c) ==
    [id |-> c,
     content |-> <<"text">>,
     created |-> <<"2024-01-01">>,
     updated |-> <<"2024-01-02">>,
     createdUser |-> [id |-> 1, name |-> <<"alice">>, roleType |-> 1]]

\* The fixtures, summaries and descriptions written character by character:
\* issue i has summary "McPs" (i = 1, 4, ...), or description "a mcp"
\* (i = 2, 5, ...), or summary "mc" and description "cp" (i = 3, 6, ...).
FixtureIssue(i, p) ==
    IssueOf(i, p,
            CASE i % 3 = 1 -> <<"M", "c", "P", "s">>
              [] i % 3 = 2 -> <<"L", "o", "g">>
              [] OTHER -> <<"m", "c">>,
            CASE i % 3 = 1 -> <<>>
              [] i % 3 = 2 -> <<"a", " ", "m", "c", "p">>
              [] OTHER -> <<"c", "p">>)

RECURSIVE SeqOfSet(_)
\* The elements of a set of numbers in increasing order.
SeqOfSet(S) ==
    IF S = {} THEN <<>>
    ELSE LET m == CHOOSE x \in S : \A y \in S : x <= y
         IN  <<m>> \o SeqOfSet(S \ {m})

Reverse(s) == [i \in 1..Len(s) |-> s[Len(s) + 1 - i]]

MapSeq(s, F(_)) == [i \in 1..Len(s) |-> F(s[i])]

\* The project lists a backend may return: any set of projects, in
\* increasing or decreasing order of id.
BackendProjectLists ==
    UNION {{MapSeq(SeqOfSet(S), ProjectOf), MapSeq(Reverse(SeqOfSet(S)), ProjectOf)} :
           S \in SUBSET ProjectIds}

\* The project of fixture issue i: spread over the projects, or all in one.
IssueProject(i, spread) == IF spread THEN ((i - 1) % MaxProjects) + 1 ELSE 1

BackendsInit ==
    {[projects |-> ps,
      issues |-> SelectSeq(MapSeq(SeqOfSet(IssueIds),
                                  LAMBDA i : FixtureIssue(i, IssueProject(i, spread))),
                           LAMBDA x : \E k \in 1..Len(ps) : ps[k].id = x.projectId),
      comments |-> MapSeq(SeqOfSet(CommentIds),
                          LAMBDA c : [issueId |-> (c % MaxIssues) + 1,
                                      comment |-> CommentOf(c)])] :
     ps \in BackendProjectLists, spread \in BOOLEAN}

CommentsOf(b, issueId) ==
    LET own == SelectSeq(b.comments, LAMBDA x : x.issueId = issueId)
    IN  MapSeq(own, LAMBDA x : x.comment)

---------------------------------------------------------------------------
(* BacklogClient (src/src/services/backlog-client.ts, lines 98-151).       *)

ApiKey == <<"KEY">>
BaseUrl == <<"https://", "SPACE", ".backlog.com/api/v2">>

\* The methods the class defines.
ClientMethods ==
    {"getProjects", "getProject", "getIssues", "getIssue", "getComments", "createIssue"}

\* request(path, params, method, data): the axios call it makes.
ClientRequest(path, params, method, data) ==
    [method |-> method,
     url |-> BaseUrl \o path,
     params |-> IF method = "get" THEN params @@ ("apiKey" :> ApiKey)
                ELSE ("apiKey" :> ApiKey),
     hasData |-> method = "post",
     data |-> IF method = "post" THEN data ELSE EmptyObj]

getProjects == ClientRequest(<<"/", "projects">>, EmptyObj, "get", EmptyObj)

getProject(projectIdOrKey) ==
    ClientRequest(<<"/", "projects", "/">> \o projectIdOrKey, EmptyObj, "get", EmptyObj)

\* getIssues sending the id under the scalar name, as the first revision did.
getIssuesScalar(projectId) ==
    LET params == IF TruthyNum(projectId) THEN ("projectId" :> projectId) ELSE EmptyObj
    IN  ClientRequest(<<"/", "issues">>, params, "get", EmptyObj)

getIssues(projectId) ==
    LET params == IF TruthyNum(projectId) THEN ("projectId[]" :> projectId) ELSE EmptyObj
    IN  ClientRequest(<<"/", "issues">>, params, "get", EmptyObj)

getIssue(issueIdOrKey) ==
    ClientRequest(<<"/", "issues", "/">> \o issueIdOrKey, EmptyObj, "get", EmptyObj)

getComments(issueId) ==
    ClientRequest(<<"/", "issues", "/">> \o TemplateNum(issueId) \o <<"/", "comments">>,
                  EmptyObj, "get", EmptyObj)

createIssue(params) == ClientRequest(<<"/", "issues">>, EmptyObj, "post", params)

---------------------------------------------------------------------------
(* The issue tracker's REST API, as far as the client uses it: what it     *)
(* answers to a call, and the data it holds afterwards.                    *)

HttpError(status) ==
    [class |-> "Error", code |-> "none",
     message |-> <<"Request failed with status code ", status>>]

NetworkError == [class |-> "Error", code |-> "none", message |-> <<"Network Error">>]

Failed(b, status) == [ok |-> FALSE, error |-> HttpError(status), next |-> b]
Answered(b, data) == [ok |-> TRUE, data |-> data, next |-> b]

ProjectsMatching(b, x) ==
    SelectSeq(b.projects, LAMBDA p : NumToStr(p.id) = x \/ p.projectKey = x)

IssuesMatching(b, x) ==
    SelectSeq(b.issues, LAMBDA i : NumToStr(i.id) = x \/ i.issueKey = x)

NextIssueId(b) ==
    LET ids == {b.issues[k].id : k \in 1..Len(b.issues)} \cup IssueIds
    IN  1 + CHOOSE m \in ids : \A y \in ids : y <= m

CreatedIssue(b, data) ==
    IssueOf(NextIssueId(b), data.projectId, data.summary,
            IF Has(data, "description") THEN data.description ELSE <<>>)

BackendAnswer(b, call) ==
    LET path == SubSeq(call.url, Len(BaseUrl) + 1, Len(call.url))
        segs == Split(Slice1(path))
    IN  IF ~Has(call.params, "apiKey") \/ call.params.apiKey # ApiKey
        THEN Failed(b, "401")
        ELSE IF SubSeq(call.url, 1, Len(BaseUrl)) # BaseUrl \/ path = <<>>
        THEN Failed(b, "404")
        ELSE IF call.method = "get" /\ segs = << <<"projects">> >>
        THEN Answered(b, b.projects)
        ELSE IF call.method = "get" /\ Len(segs) = 2 /\ segs[1] = <<"projects">>
        THEN IF ProjectsMatching(b, segs[2]) = <<>> THEN Failed(b, "404")
             ELSE Answered(b, ProjectsMatching(b, segs[2])[1])
        ELSE IF call.method = "get" /\ segs = << <<"issues">> >>
        THEN IF Has(call.params, "projectId[]")
             THEN Answered(b, SelectSeq(b.issues,
                                 LAMBDA i : i.projectId = call.params["projectId[]"]))
             ELSE Answered(b, b.issues)
        ELSE IF call.method = "get" /\ Len(segs) = 2 /\ segs[1] = <<"issues">>
        THEN IF IssuesMatching(b, segs[2]) = <<>> THEN Failed(b, "404")
             ELSE Answered(b, IssuesMatching(b, segs[2])[1])
        ELSE IF call.method = "get" /\ Len(segs) = 3 /\ segs[1] = <<"issues">>
                /\ segs[3] = <<"comments">>
        THEN IF IssuesMatching(b, segs[2]) = <<>> THEN Failed(b, "404")
             ELSE Answered(b, CommentsOf(b, IssuesMatching(b, segs[2])[1].id))
        ELSE IF call.method = "post" /\ segs = << <<"issues">> >>
        THEN IF /\ call.hasData
                /\ \A f \in {"projectId", "summary", "issueTypeId", "priorityId"} :
                       Has(call.data, f)
                /\ ProjectsMatching(b, TemplateNum(call.data.projectId)) # <<>>
                /\ TruthyStr(call.data.summary)
                /\ Len(b.issues) < MaxIssues + MaxCreated
             THEN LET created == CreatedIssue(b, call.data)
                  IN  [ok |-> TRUE, data |-> created,
                       next |-> [b EXCEPT !.issues = Append(@, created)]]
             ELSE Failed(b, "400")
        ELSE Failed(b, "404")

---------------------------------------------------------------------------
(* What a handler does in one run: it returns, throws, or is suspended on  *)
(* an HTTP call (`await`).                                                 *)

Return(v) == [kind |-> "return", value |-> v]
Throw(e) == [kind |-> "throw", error |-> e]
Await(call) == [kind |-> "await", call |-> call]

Error(message) == [class |-> "Error", code |-> "none", message |-> message]
TypeError(message) == [class |-> "TypeError", code |-> "none", message |-> message]
McpError(code, message) == [class |-> "McpError", code |-> code, message |-> message]
NoError == [class |-> "none", code |-> "none", message |-> <<>>]

\* Calling a method the client object does not have.
NotAFunction(method) == TypeError(<<"backlogClient.", method, " is not a function">>)

\* backlogClient.method(...): the call the method makes (call), when the
\* class defines the method.
InvokeClient(method, call) ==
    IF method \in ClientMethods THEN Await(call) ELSE Throw(NotAFunction(method))

\* The call of a method the class does not define: there is none.
NoCall == EmptyObj

\* Reading a property of a null payload.
NullPayload == TypeError(<<"Cannot read properties of null">>)

---------------------------------------------------------------------------
(* ListTools (src/src/index.ts, lines 950-1100).                           *)

Tool(name, properties, required) ==
    [name |-> name, properties |-> properties, required |-> required]

\* ListToolsResult offering create_issue only while the tracker has a project.
ListToolsResultLive ==
    [tools |-> SelectSeq(<<
        Tool("list_projects", {"keyword"}, <<>>),
        Tool("get_project_details", {"projectIdOrKey"}, <<"projectIdOrKey">>),
        Tool("get_project_issues", {"projectId", "keyword", "statusId"}, <<"projectId">>),
        Tool("get_issue_details", {"issueIdOrKey"}, <<"issueIdOrKey">>),
        Tool("get_issue_comments", {"issueId"}, <<"issueId">>),
        Tool("create_issue",
             {"projectId", "summary", "description", "issueTypeId", "priorityId",
              "startDate", "dueDate", "estimatedHours", "actualHours", "assigneeId"},
             <<"projectId", "summary", "issueTypeId", "priorityId">>),
        Tool("create_issue_comment", {"issueId", "content"}, <<"issueId", "content">>)
    >>, LAMBDA t : t.name # "create_issue" \/ backend.projects # <<>>)]

ListToolsResult ==
    [tools |-> <<
        Tool("list_projects", {"keyword"}, <<>>),
        Tool("get_project_details", {"projectIdOrKey"}, <<"projectIdOrKey">>),
        Tool("get_project_issues", {"projectId", "keyword", "statusId"}, <<"projectId">>),
        Tool("get_issue_details", {"issueIdOrKey"}, <<"issueIdOrKey">>),
        Tool("get_issue_comments", {"issueId"}, <<"issueId">>),
        Tool("create_issue",
             {"projectId", "summary", "description", "issueTypeId", "priorityId",
              "startDate", "dueDate", "estimatedHours", "actualHours", "assigneeId"},
             <<"projectId", "summary", "issueTypeId", "priorityId">>),
        Tool("create_issue_comment", {"issueId", "content"}, <<"issueId", "content">>)
    >>]

---------------------------------------------------------------------------
(* CallTool (src/src/index.ts, lines 1155-1428).                           *)

\* The response of a tool: one text item holding the JSON of obj.
ToolText(obj) == [content |-> << [type |-> "text", text |-> obj] >>]

Suggestion(name, arguments) == [name |-> name, arguments |-> arguments]
TemplateSuggestion(name, template) == [name |-> name, template |-> template]

\* !args.f for a numeric / a string argument (an absent one is undefined).
MissingNum(args, f) == ~Has(args, f) \/ ~TruthyNum(args[f])
MissingStr(args, f) == ~Has(args, f) \/ ~TruthyStr(args[f])

CreateIssueTemplate(projectId) ==
    TemplateSuggestion("create_issue",
        [projectId |-> projectId, summary |-> <<>>, issueTypeId |-> 0, priorityId |-> 2])

CreateCommentTemplate(issueId) ==
    TemplateSuggestion("create_issue_comment", [issueId |-> issueId, content |-> <<>>])

\* case "list_projects"
ListProjectsCase(args) == InvokeClient("getProjects", getProjects)

\* ListProjectsResult with the field selection of the 'projects' resource
\* in place of the spread of the backend's project.
ListProjectsResultSelected(projects) ==
    ToolText(
        [total |-> Len(projects),
         projects |-> MapSeq(projects, LAMBDA project :
            [id |-> project.id, key |-> project.projectKey, name |-> project.name,
             description |-> project.description,
             _links |->
                [tools |->
                    [get_project_details |->
                        Suggestion("get_project_details",
                                   [projectIdOrKey |-> NumToStr(project.id)]),
                     get_project_issues |->
                        Suggestion("get_project_issues", [projectId |-> project.id]),
                     create_issue |-> CreateIssueTemplate(project.id)]]])])

ListProjectsResult(projects) ==
    ToolText(
        [total |-> Len(projects),
         projects |-> MapSeq(projects, LAMBDA project :
            Spread(project, "_links",
                [tools |->
                    [get_project_details |->
                        Suggestion("get_project_details",
                                   [projectIdOrKey |-> NumToStr(project.id)]),
                     get_project_issues |->
                        Suggestion("get_project_issues", [projectId |-> project.id]),
                     create_issue |-> CreateIssueTemplate(project.id)]]))])

\* case "get_project_details"
GetProjectDetailsCase(args) ==
    IF MissingStr(args, "projectIdOrKey")
    THEN Throw(Error(<<"Missing required argument: ", "projectIdOrKey">>))
    ELSE InvokeClient("getProject", getProject(args.projectIdOrKey))

\* GetProjectDetailsResult naming the argument of get_project_issues as the
\* argument of get_project_details is named.
GetProjectDetailsResultMisnamed(project) ==
    ToolText(
        Spread(project, "_links",
            [tools |->
                [get_project_issues |->
                    Suggestion("get_project_issues",
                               [projectIdOrKey |-> NumToStr(project.id)]),
                 create_issue |-> CreateIssueTemplate(project.id)]]))

GetProjectDetailsResult(project) ==
    ToolText(
        Spread(project, "_links",
            [tools |->
                [get_project_issues |->
                    Suggestion("get_project_issues", [projectId |-> project.id]),
                 create_issue |-> CreateIssueTemplate(project.id)]]))

\* case "get_project_issues"
GetProjectIssuesCase(args) ==
    IF MissingNum(args, "projectId")
    THEN Throw(Error(<<"Missing required argument: ", "projectId">>))
    ELSE InvokeClient("getIssues", getIssues(args.projectId))

\* IssueTools with the comment template filled with the project's id.
IssueToolsOfProject(issue) ==
    [get_issue_details |->
        Suggestion("get_issue_details", [issueIdOrKey |-> NumToStr(issue.id)]),
     get_issue_comments |-> Suggestion("get_issue_comments", [issueId |-> issue.id]),
     create_issue_comment |-> CreateCommentTemplate(issue.projectId)]

IssueTools(issue) ==
    [get_issue_details |->
        Suggestion("get_issue_details", [issueIdOrKey |-> NumToStr(issue.id)]),
     get_issue_comments |-> Suggestion("get_issue_comments", [issueId |-> issue.id]),
     create_issue_comment |-> CreateCommentTemplate(issue.id)]

GetProjectIssuesResult(issues) ==
    ToolText(
        [total |-> Len(issues),
         issues |-> MapSeq(issues, LAMBDA issue :
            Spread(issue, "_links", [tools |-> IssueTools(issue)]))])

\* case "get_issue_details"
GetIssueDetailsCase(args) ==
    IF MissingStr(args, "issueIdOrKey")
    THEN Throw(Error(<<"Missing required argument: ", "issueIdOrKey">>))
    ELSE InvokeClient("getIssue", getIssue(args.issueIdOrKey))

GetIssueDetailsResult(issue) ==
    ToolText(
        Spread(issue, "_links",
            [tools |->
                [get_issue_comments |->
                    Suggestion("get_issue_comments", [issueId |-> issue.id]),
                 create_issue_comment |-> CreateCommentTemplate(issue.id)]]))

\* case "get_issue_comments"
GetIssueCommentsCase(args) ==
    IF MissingNum(args, "issueId")
    THEN Throw(Error(<<"Missing required argument: ", "issueId">>))
    ELSE InvokeClient("getComments", getComments(args.issueId))

GetIssueCommentsResult(args, comments) ==
    ToolText(
        [total |-> Len(comments),
         comments |-> MapSeq(comments, LAMBDA comment :
            Spread(comment, "_links",
                [tools |-> [create_issue_comment |-> CreateCommentTemplate(args.issueId)]]))])

\* case "create_issue"
\* CreateIssueCase sending the arguments without examining them.
CreateIssueCaseUnchecked(args) == InvokeClient("createIssue", createIssue(args))

CreateIssueCase(args) ==
    IF \/ MissingNum(args, "projectId") \/ MissingStr(args, "summary")
       \/ MissingNum(args, "issueTypeId") \/ MissingNum(args, "priorityId")
    THEN Throw(Error(<<"Missing required arguments for issue creation">>))
    ELSE InvokeClient("createIssue", createIssue(args))

CreateIssueResult(issue) ==
    ToolText(Spread(issue, "_links", [tools |-> IssueTools(issue)]))

\* case "create_issue_comment": backlogClient.createComment(issueId, content).
CreateIssueCommentCase(args) ==
    IF MissingNum(args, "issueId") \/ MissingStr(args, "content")
    THEN Throw(Error(<<"Missing required arguments for comment creation">>))
    ELSE InvokeClient("createComment", NoCall)

CreateIssueCommentResult(args, comment) ==
    ToolText(
        Spread(comment, "_links",
            [tools |->
                [get_issue_comments |->
                    Suggestion("get_issue_comments", [issueId |-> args.issueId])]]))

\* UnknownToolCase without the requested name in the message.
UnknownToolCaseUnnamed(name) == Throw(Error(<<"Unknown tool">>))

\* default:
UnknownToolCase(name) == Throw(Error(<<"Unknown tool: ", name>>))

\* ArgumentsCheck left out of the handler.
ArgumentsCheckSkipped(req) == FALSE

\* if (!request.params.arguments) throw ...
ArgumentsCheck(req) == ~req.hasArguments

\* The try block, up to its first await.
CallToolTry(req) ==
    IF ArgumentsCheck(req) THEN Throw(Error(<<"No arguments provided">>))
    ELSE CASE req.name = "list_projects" -> ListProjectsCase(req.arguments)
           [] req.name = "get_project_details" -> GetProjectDetailsCase(req.arguments)
           [] req.name = "get_project_issues" -> GetProjectIssuesCase(req.arguments)
           [] req.name = "get_issue_details" -> GetIssueDetailsCase(req.arguments)
           [] req.name = "get_issue_comments" -> GetIssueCommentsCase(req.arguments)
           [] req.name = "create_issue" -> CreateIssueCase(req.arguments)
           [] req.name = "create_issue_comment" -> CreateIssueCommentCase(req.arguments)
           [] OTHER -> UnknownToolCase(req.name)

\* The try block, from the awaited call's payload to its return.
CallToolContinue(req, data) ==
    CASE req.name = "list_projects" -> Return(ListProjectsResult(data))
      [] req.name = "get_project_details" -> Return(GetProjectDetailsResult(data))
      [] req.name = "get_project_issues" -> Return(GetProjectIssuesResult(data))
      [] req.name = "get_issue_details" -> Return(GetIssueDetailsResult(data))
      [] req.name = "get_issue_comments" ->
            Return(GetIssueCommentsResult(req.arguments, data))
      [] req.name = "create_issue" -> Return(CreateIssueResult(data))
      [] OTHER -> Return(CreateIssueCommentResult(req.arguments, data))

\* CallToolCatch rethrowing what it caught.
CallToolCatchRethrows(error) == Throw(error)

\* catch (error): the error becomes the body of a normal response.
CallToolCatch(error) == Return(ToolText([error |-> error.message]))

CallToolStart(req) ==
    LET r == CallToolTry(req)
    IN  IF r.kind = "throw" THEN CallToolCatch(r.error) ELSE r

CallToolResume(req, rep) ==
    IF ~rep.ok THEN CallToolCatch(rep.error)
    ELSE IF rep.isNull THEN CallToolCatch(NullPayload)
    ELSE CallToolContinue(req, rep.data)

---------------------------------------------------------------------------
(* ListResources (src/src/index.ts, lines 436-462).                        *)

Uri(path) == <<"backlog:", "/", "/", "/">> \o path

ProjectUri(id) == Uri(<<"project", "/">> \o TemplateNum(id))
ProjectIssuesUri(id) == Uri(<<"project", "/">> \o TemplateNum(id) \o <<"/", "issues">>)
IssueUri(id) == Uri(<<"issue", "/">> \o TemplateNum(id))
IssueCommentsUri(id) == Uri(<<"issue", "/">> \o TemplateNum(id) \o <<"/", "comments">>)

ListResourcesTry == InvokeClient("getProjects", getProjects)

\* ListResourcesResult built from a project list fetched once, not from the
\* one just received.
ListResourcesResultCached(projects) ==
    [resources |->
        << [uri |-> Uri(<<"projects">>),
            mimeType |-> "application/json",
            name |-> <<"Backlog Projects">>,
            description |-> <<"List of all Backlog projects">>] >>
        \o MapSeq(<<ProjectOf(1)>>, LAMBDA project :
            [uri |-> ProjectUri(project.id),
             mimeType |-> "application/json",
             name |-> project.name,
             description |-> IF TruthyStr(project.description) THEN project.description
                             ELSE <<"Backlog project: ">> \o project.name])]

ListResourcesResult(projects) ==
    [resources |->
        << [uri |-> Uri(<<"projects">>),
            mimeType |-> "application/json",
            name |-> <<"Backlog Projects">>,
            description |-> <<"List of all Backlog projects">>] >>
        \o MapSeq(projects, LAMBDA project :
            [uri |-> ProjectUri(project.id),
             mimeType |-> "application/json",
             name |-> project.name,
             description |-> IF TruthyStr(project.description) THEN project.description
                             ELSE <<"Backlog project: ">> \o project.name])]

\* ListResourcesCatch answering a failure with the fixed descriptor alone.
ListResourcesCatchSwallows(error) ==
    Return([resources |->
        << [uri |-> Uri(<<"projects">>),
            mimeType |-> "application/json",
            name |-> <<"Backlog Projects">>,
            description |-> <<"List of all Backlog projects">>] >>])

ListResourcesCatch(error) ==
    Throw(McpError("InternalError", <<"Failed to fetch Backlog resources">>))

ListResourcesStart ==
    LET r == ListResourcesTry
    IN  IF r.kind = "throw" THEN ListResourcesCatch(r.error) ELSE r

ListResourcesResume(rep) ==
    IF ~rep.ok THEN ListResourcesCatch(rep.error)
    ELSE IF rep.isNull THEN ListResourcesCatch(NullPayload)
    ELSE Return(ListResourcesResult(rep.data))

---------------------------------------------------------------------------
(* ReadResource (src/src/index.ts, lines 468-581).                         *)

\* url.pathname.slice(1).split('/')
Paths(uri) == Split(Slice1(Pathname(uri)))

\* The switch ended without assigning `content`.
Break == [kind |-> "break"]

\* case 'projects'
ProjectsCase(paths) == InvokeClient("getProjects", getProjects)

ProjectsContent(projects) ==
    [total |-> Len(projects),
     projects |-> MapSeq(projects, LAMBDA p :
        [id |-> p.id, key |-> p.projectKey, name |-> p.name,
         description |-> p.description,
         _links |-> [self |-> ProjectUri(p.id), issues |-> ProjectIssuesUri(p.id)]])]

\* case 'project'
ProjectCase(paths) ==
    IF Len(paths) < 2 \/ ~TruthyStr(paths[2])
    THEN Throw(McpError("InvalidRequest", <<"Project ID is required">>))
    ELSE IF Len(paths) = 2 THEN InvokeClient("getProject", getProject(paths[2]))
    ELSE IF paths[3] = <<"issues">>
    THEN InvokeClient("getIssues", getIssues(parseInt(paths[2])))
    ELSE Break

ProjectContent(project) ==
    Spread(project, "_links",
           [self |-> ProjectUri(project.id), issues |-> ProjectIssuesUri(project.id)])

IssueLinks(issue) ==
    [self |-> IssueUri(issue.id),
     comments |-> IssueCommentsUri(issue.id),
     project |-> ProjectUri(issue.projectId)]

ProjectIssuesContent(issues) ==
    [total |-> Len(issues),
     issues |-> MapSeq(issues, LAMBDA issue :
        [id |-> issue.id, issueKey |-> issue.issueKey, summary |-> issue.summary,
         status |-> issue.status, _links |-> IssueLinks(issue)])]

\* IssueCase taking any third segment for 'comments'.
IssueCaseAnySubresource(paths) ==
    IF Len(paths) = 2 THEN InvokeClient("getIssue", getIssue(paths[2]))
    ELSE IF Len(paths) >= 3
    THEN InvokeClient("getComments", getComments(parseInt(paths[2])))
    ELSE Break

\* case 'issue'
IssueCase(paths) ==
    IF Len(paths) = 2 THEN InvokeClient("getIssue", getIssue(paths[2]))
    ELSE IF Len(paths) >= 3 /\ paths[3] = <<"comments">>
    THEN InvokeClient("getComments", getComments(parseInt(paths[2])))
    ELSE Break

IssueContent(issue) == Spread(issue, "_links", IssueLinks(issue))

CommentSelfUri(issueSegment, commentId) ==
    Uri(<<"issue", "/">> \o issueSegment \o <<"/", "comment", "/">> \o TemplateNum(commentId))

IssueCommentsContent(paths, comments) ==
    [total |-> Len(comments),
     comments |-> MapSeq(comments, LAMBDA comment :
        Spread(comment, "_links",
               [self |-> CommentSelfUri(paths[2], comment.id),
                issue |-> Uri(<<"issue", "/">> \o paths[2])]))]

\* switch (paths[0]), up to the first await.
ReadResourceSwitch(paths) ==
    CASE paths[1] = <<"projects">> -> ProjectsCase(paths)
      [] paths[1] = <<"project">> -> ProjectCase(paths)
      [] paths[1] = <<"issue">> -> IssueCase(paths)
      [] OTHER -> Break

\* The assignment to `content` after the awaited call.
ReadResourceContent(paths, data) ==
    CASE paths[1] = <<"projects">> -> ProjectsContent(data)
      [] paths[1] = <<"project">> /\ Len(paths) = 2 -> ProjectContent(data)
      [] paths[1] = <<"project">> -> ProjectIssuesContent(data)
      [] paths[1] = <<"issue">> /\ Len(paths) = 2 -> IssueContent(data)
      [] OTHER -> IssueCommentsContent(paths, data)

\* if (!content) throw ...
ContentCheck(uri) ==
    Throw(McpError("MethodNotFound", <<"Resource ">> \o uri \o <<" not found">>))

ReadResourceReturn(uri, content) ==
    Return([contents |-> << [uri |-> uri, mimeType |-> "application/json",
                             text |-> content] >>])

\* ReadResourceCatch wrapping every error, typed or not.
ReadResourceCatchWrapsAll(uri, error) ==
    Throw(McpError("InternalError", <<"Failed to read resource ">> \o uri))

\* catch (error): a typed protocol error is rethrown, any other is wrapped.
ReadResourceCatch(uri, error) ==
    IF error.class = "McpError" THEN Throw(error)
    ELSE Throw(McpError("InternalError", <<"Failed to read resource ">> \o uri))

ReadResourceStart(uri) ==
    LET r == ReadResourceSwitch(Paths(uri))
    IN  IF r.kind = "break" THEN ReadResourceCatch(uri, ContentCheck(uri).error)
        ELSE IF r.kind = "throw" THEN ReadResourceCatch(uri, r.error)
        ELSE r

ReadResourceResume(uri, rep) ==
    IF ~rep.ok THEN ReadResourceCatch(uri, rep.error)
    ELSE IF rep.isNull THEN ReadResourceCatch(uri, NullPayload)
    ELSE ReadResourceReturn(uri, ReadResourceContent(Paths(uri), rep.data))

---------------------------------------------------------------------------
(* ListPrompts and GetPrompt (src/src/index.ts, lines 1103-1152): two      *)
(* prompts of fixed instructions.                                          *)

Prompt(name, description) == [name |-> name, description |-> description]

TextMessage(role, text) ==
    [role |-> role, content |-> [type |-> "text", text |-> text]]

ListPromptsResult ==
    [prompts |->
        << Prompt("analyze_project_issues", <<"analyze the issues of a project">>),
           Prompt("summarize_issue_discussion", <<"summarize the discussion of an issue">>) >>]

\* GetPromptResult taking every name for the first prompt.
GetPromptResultAnyName(name) ==
    Return([messages |->
        << TextMessage("system", <<"classify, progress, remaining, next; first call ",
                                    "list_projects">>) >>])

\* switch (request.params.name)
GetPromptResult(name) ==
    CASE name = "analyze_project_issues" ->
            Return([messages |->
                << TextMessage("system", <<"classify, progress, remaining, next; first call ",
                                            "list_projects">>) >>])
      [] name = "summarize_issue_discussion" ->
            Return([messages |->
                << TextMessage("system", <<"collect with ", "get_issue_details", " and ",
                                            "get_issue_comments", "; then summarize">>) >>])
      [] OTHER -> Throw(McpError("MethodNotFound", <<"Unknown prompt">>))

---------------------------------------------------------------------------
(* ListPrompts and GetPrompt of the second revision (src/src/index.ts,     *)
(* lines 583-650): the aggregation prompt search_mcp_issues.               *)

SearchListPromptsResult ==
    [prompts |-> << Prompt("search_mcp_issues", <<"search and arrange the MCP issues">>) >>]

\* if (request.params.name !== "search_mcp_issues") throw ...; then the
\* first await.
SearchPromptStart(name) ==
    IF name # "search_mcp_issues"
    THEN Throw(McpError("MethodNotFound", <<"Unknown prompt">>))
    ELSE InvokeClient("getProjects", getProjects)

\* McpFilter looking at the summary only.
McpFilterSummaryOnly(issues) ==
    SelectSeq(issues, LAMBDA issue :
        Includes(ToLowerCase(issue.summary), <<"m", "c", "p">>))

\* issues.filter(issue => ...): summary or description contains 'mcp'.
McpFilter(issues) ==
    SelectSeq(issues, LAMBDA issue :
        \/ Includes(ToLowerCase(issue.summary), <<"m", "c", "p">>)
        \/ Includes(ToLowerCase(issue.description), <<"m", "c", "p">>))

\* A promise of the fan-out: the call of one project.map callback.
Pending(call) ==
    [state |-> "pending", call |-> call, value |-> <<>>, error |-> NoError, rank |-> 0]

\* projects.map(async project => ...), each callback run to its await.
FanOut(projects) ==
    MapSeq(projects, LAMBDA project : Pending(getIssues(project.id)))

\* The k-th promise settled as the n-th: fulfilled with the filtered issues,
\* or rejected with the error of the call (a null body has no filter).
Settled(promise, rep, n) ==
    IF ~rep.ok THEN [promise EXCEPT !.state = "rejected", !.error = rep.error, !.rank = n]
    ELSE IF rep.isNull
    THEN [promise EXCEPT !.state = "rejected", !.error = NullPayload, !.rank = n]
    ELSE [promise EXCEPT !.state = "fulfilled", !.value = McpFilter(rep.data), !.rank = n]

NumSettled(promises) ==
    Cardinality({k \in 1..Len(promises) : promises[k].state # "pending"})

RECURSIVE Flat(_)
\* Array.prototype.flat() of an array of arrays.
Flat(arrays) == IF arrays = <<>> THEN <<>> ELSE Head(arrays) \o Flat(Tail(arrays))

\* The settled promises in the order in which they settled.
InSettlingOrder(promises) ==
    [n \in 1..Len(promises) |->
        promises[CHOOSE k \in 1..Len(promises) : promises[k].rank = n]]

\* PromiseAllValues listing the values in the order of settling.
PromiseAllValuesAsSettled(promises) ==
    MapSeq(InSettlingOrder(promises), LAMBDA q : q.value)

\* The value of Promise.all(promises) once all are fulfilled: the values in
\* the order of the promises.
PromiseAllValues(promises) == MapSeq(promises, LAMBDA q : q.value)

IssueResource(issue) ==
    [type |-> "resource",
     resource |-> [uri |-> IssueUri(issue.id),
                   mimeType |-> "application/json",
                   text |-> [summary |-> issue.summary, description |-> issue.description,
                             status |-> issue.status, issueKey |-> issue.issueKey]]]

OpeningInstruction == TextMessage("user", <<"analyze the following MCP issues">>)

ClosingInstruction ==
    TextMessage("user", <<"about the issues above arrange: classification, progress, ",
                          "remaining issues, recommended next actions">>)

\* const mcpIssues = allIssues.flat(); ... return { messages: [...] }
SearchPromptResult(allIssues) ==
    LET mcpIssues == Flat(allIssues)
        issueResources == MapSeq(mcpIssues, IssueResource)
    IN  [messages |->
            <<OpeningInstruction>>
            \o MapSeq(issueResources, LAMBDA resource : [role |-> "user", content |-> resource])
            \o <<ClosingInstruction>>]

\* SearchPromptJoin waiting for every promise and answering with the values
\* of those that were fulfilled.
SearchPromptJoinPartial(promises, k) ==
    IF \A j \in 1..Len(promises) : promises[j].state # "pending"
    THEN Return(SearchPromptResult(PromiseAllValues(promises)))
    ELSE [kind |-> "pending"]

\* Promise.all over the promises after one has settled: rejected with the
\* error of the promise that was rejected, fulfilled when all are, pending
\* otherwise.  No catch: a rejection leaves the handler as it is.
SearchPromptJoin(promises, k) ==
    IF promises[k].state = "rejected" THEN Throw(promises[k].error)
    ELSE IF \A j \in 1..Len(promises) : promises[j].state = "fulfilled"
    THEN Return(SearchPromptResult(PromiseAllValues(promises)))
    ELSE [kind |-> "pending"]

---------------------------------------------------------------------------
(* The requests a host may send.                                           *)

ObjsOf(f, V) == {EmptyObj} \cup {(f :> v) : v \in V}
Merged(A, B) == {a @@ b : a \in A, b \in B}

IdStrings(ids) == {<<>>} \cup {NumToStr(i) : i \in ids}

ToolArguments(name) ==
    CASE name = "list_projects" -> ObjsOf("keyword", {<<"x">>})
      [] name = "get_project_details" ->
            ObjsOf("projectIdOrKey", IdStrings(ProjectIds) \cup {ProjectKeyOf(1)})
      [] name = "get_project_issues" -> ObjsOf("projectId", 0..MaxProjects)
      [] name = "get_issue_details" ->
            ObjsOf("issueIdOrKey", IdStrings(IssueIds) \cup {FixtureIssue(1, 1).issueKey})
      [] name = "get_issue_comments" -> ObjsOf("issueId", 0..MaxIssues)
      [] name = "create_issue" ->
            Merged(Merged(ObjsOf("projectId", 0..MaxProjects),
                          ObjsOf("summary", {<<>>, <<"B", "u", "g">>})),
                   Merged(ObjsOf("issueTypeId", {0, 1}), ObjsOf("priorityId", {2})))
      [] name = "create_issue_comment" ->
            Merged(ObjsOf("issueId", 0..MaxIssues), ObjsOf("content", {<<>>, <<"hi">>}))
      [] OTHER -> {EmptyObj}

ToolNames ==
    {ListToolsResult.tools[k].name : k \in 1..Len(ListToolsResult.tools)}

RequestedNames == ToolNames \cup {"frobnicate"}

NoUri == <<>>

CallToolRequests ==
    UNION {{[type |-> "CallTool", name |-> n, hasArguments |-> TRUE, arguments |-> a,
             uri |-> NoUri] : a \in ToolArguments(n)} : n \in RequestedNames}
    \cup
    {[type |-> "CallTool", name |-> n, hasArguments |-> FALSE, arguments |-> EmptyObj,
      uri |-> NoUri] : n \in RequestedNames}

Segments0 == {<<"projects">>, <<"Projects">>, <<"project">>, <<"issue">>, <<"widget">>}
Segments1 == IdStrings(1..MaxIssues) \cup {ProjectKeyOf(1)}
Segments2 == {<<"issues">>, <<"comments">>, <<"comment">>, <<"foo">>}
Segments3 == {NumToStr(c) : c \in CommentIds} \cup {<<"extra">>}

RequestedPaths ==
    {<<>>}
    \cup Segments0
    \cup {a \o <<"/">> \o b : a \in Segments0, b \in Segments1}
    \cup {a \o <<"/">> \o b \o <<"/">> \o c :
            a \in Segments0 \ {<<"widget">>, <<"Projects">>}, b \in Segments1,
            c \in Segments2}
    \cup {a \o <<"/">> \o b \o <<"/">> \o c \o <<"/">> \o d :
            a \in {<<"project">>, <<"issue">>}, b \in Segments1 \ {<<>>},
            c \in Segments2 \ {<<"foo">>}, d \in Segments3}

RequestedUris == {Uri(p) : p \in RequestedPaths} \cup {<<"backlog:", "/", "/", "projects">>}

ReadResourceRequests ==
    {[type |-> "ReadResource", name |-> "", hasArguments |-> FALSE, arguments |-> EmptyObj,
      uri |-> u] : u \in RequestedUris}

RequestedPrompts ==
    {"analyze_project_issues", "summarize_issue_discussion", "search_mcp_issues", "frobnicate"}

GetPromptRequests ==
    {[type |-> "GetPrompt", name |-> n, hasArguments |-> FALSE, arguments |-> EmptyObj,
      uri |-> NoUri] : n \in RequestedPrompts}

SearchGetPromptRequests ==
    {[type |-> "SearchGetPrompt", name |-> n, hasArguments |-> FALSE, arguments |-> EmptyObj,
      uri |-> NoUri] : n \in RequestedPrompts}

PlainRequest(type) ==
    [type |-> type, name |-> "", hasArguments |-> FALSE, arguments |-> EmptyObj, uri |-> NoUri]

NoRequest == PlainRequest("none")

---------------------------------------------------------------------------
(* The server: one request at a time, suspended while a call is in flight. *)

NoReply == [ok |-> FALSE, isNull |-> FALSE, data |-> <<>>, error |-> NoError]
NoResponse == [raised |-> FALSE, result |-> EmptyObj, error |-> NoError]

Init ==
    /\ backend \in BackendsInit
    /\ request = NoRequest
    /\ pc = "idle"
    /\ outbound = <<>>
    /\ reply = NoReply
    /\ response = NoResponse
    /\ fanout = <<>>
    /\ listed = "none"

\* The handler ran to the outcome r: a response to the host, or a call.
Step(r) ==
    IF r.kind = "await"
    THEN /\ outbound' = Append(outbound, r.call)
         /\ pc' = "awaiting"
         /\ response' = NoResponse
    ELSE /\ outbound' = outbound
         /\ pc' = "done"
         /\ response' = IF r.kind = "return"
                        THEN [raised |-> FALSE, result |-> r.value, error |-> NoError]
                        ELSE [raised |-> TRUE, result |-> EmptyObj, error |-> r.error]

ReceiveListTools ==
    /\ pc = "idle"
    /\ request' = PlainRequest("ListTools")
    /\ Step(Return(ListToolsResult))
    /\ UNCHANGED <<backend, reply, fanout, listed>>

ReceiveCallTool ==
    /\ pc = "idle"
    /\ \E req \in CallToolRequests :
        /\ request' = req
        /\ Step(CallToolStart(req))
    /\ UNCHANGED <<backend, reply, fanout, listed>>

ReceiveListPrompts ==
    /\ pc = "idle"
    /\ request' = PlainRequest("ListPrompts")
    /\ Step(Return(ListPromptsResult))
    /\ UNCHANGED <<backend, reply, fanout, listed>>

ReceiveGetPrompt ==
    /\ pc = "idle"
    /\ \E req \in GetPromptRequests :
        /\ request' = req
        /\ Step(GetPromptResult(req.name))
    /\ UNCHANGED <<backend, reply, fanout, listed>>

ReceiveSearchListPrompts ==
    /\ pc = "idle"
    /\ request' = PlainRequest("SearchListPrompts")
    /\ Step(Return(SearchListPromptsResult))
    /\ UNCHANGED <<backend, reply, fanout, listed>>

ReceiveSearchGetPrompt ==
    /\ pc = "idle"
    /\ \E req \in SearchGetPromptRequests :
        /\ request' = req
        /\ Step(SearchPromptStart(req.name))
    /\ UNCHANGED <<backend, reply, fanout, listed>>

ReceiveListResources ==
    /\ pc = "idle"
    /\ request' = PlainRequest("ListResources")
    /\ Step(ListResourcesStart)
    /\ UNCHANGED <<backend, reply, fanout, listed>>

ReceiveReadResource ==
    /\ pc = "idle"
    /\ \E req \in ReadResourceRequests :
        /\ request' = req
        /\ Step(ReadResourceStart(req.uri))
    /\ UNCHANGED <<backend, reply, fanout, listed>>

\* The backend answers the call in flight.
BackendAnswers ==
    /\ pc = "awaiting"
    /\ LET a == BackendAnswer(backend, outbound[Len(outbound)])
       IN  /\ backend' = a.next
           /\ reply' = IF a.ok
                       THEN [ok |-> TRUE, isNull |-> FALSE, data |-> a.data, error |-> NoError]
                       ELSE [ok |-> FALSE, isNull |-> FALSE, data |-> <<>>, error |-> a.error]
    /\ pc' = "replied"
    /\ UNCHANGED <<request, outbound, response, fanout, listed>>

\* The call in flight fails before an answer arrives.
NetworkFails ==
    /\ pc = "awaiting"
    /\ reply' = [ok |-> FALSE, isNull |-> FALSE, data |-> <<>>, error |-> NetworkError]
    /\ pc' = "replied"
    /\ UNCHANGED <<backend, request, outbound, response, fanout, listed>>

\* The answer is a 2xx with a null body.
BackendAnswersNull ==
    /\ pc = "awaiting"
    /\ reply' = [ok |-> TRUE, isNull |-> TRUE, data |-> <<>>, error |-> NoError]
    /\ pc' = "replied"
    /\ UNCHANGED <<backend, request, outbound, response, fanout, listed>>

ResumeCallTool ==
    /\ pc = "replied"
    /\ request.type = "CallTool"
    /\ Step(CallToolResume(request, reply))
    /\ UNCHANGED <<backend, request, reply, fanout, listed>>

ResumeListResources ==
    /\ pc = "replied"
    /\ request.type = "ListResources"
    /\ Step(ListResourcesResume(reply))
    /\ UNCHANGED <<backend, request, reply, fanout, listed>>

ResumeReadResource ==
    /\ pc = "replied"
    /\ request.type = "ReadResource"
    /\ Step(ReadResourceResume(request.uri, reply))
    /\ UNCHANGED <<backend, request, reply, fanout, listed>>

\* The project list has arrived: the handler starts one getIssues call per
\* project and waits for all of them (Promise.all of no promise is
\* fulfilled at once).
ResumeSearchGetPrompt ==
    /\ pc = "replied"
    /\ request.type = "SearchGetPrompt"
    /\ IF ~reply.ok THEN Step(Throw(reply.error)) /\ fanout' = fanout
       ELSE IF reply.isNull THEN Step(Throw(NullPayload)) /\ fanout' = fanout
       ELSE IF reply.data = <<>>
       THEN Step(Return(SearchPromptResult(<<>>))) /\ fanout' = fanout
       ELSE /\ fanout' = FanOut(reply.data)
            /\ outbound' = outbound \o MapSeq(FanOut(reply.data), LAMBDA q : q.call)
            /\ pc' = "joining"
            /\ response' = NoResponse
    /\ UNCHANGED <<backend, request, reply, listed>>

\* One of the pending calls settles with the reply rep, and Promise.all
\* with it when that decides it.
Settle(k, rep) ==
    LET promises == [fanout EXCEPT ![k] = Settled(@, rep, NumSettled(fanout) + 1)]
        r == SearchPromptJoin(promises, k)
    IN  /\ fanout' = promises
        /\ IF r.kind = "pending"
           THEN UNCHANGED <<pc, outbound, response>>
           ELSE Step(r)
        /\ UNCHANGED <<backend, request, reply, listed>>

FetchAnswers ==
    /\ pc = "joining"
    /\ \E k \in 1..Len(fanout) :
        /\ fanout[k].state = "pending"
        /\ LET a == BackendAnswer(backend, fanout[k].call)
           IN  Settle(k, IF a.ok
                         THEN [ok |-> TRUE, isNull |-> FALSE, data |-> a.data,
                               error |-> NoError]
                         ELSE [ok |-> FALSE, isNull |-> FALSE, data |-> <<>>,
                               error |-> a.error])

FetchFails ==
    /\ pc = "joining"
    /\ \E k \in 1..Len(fanout) :
        /\ fanout[k].state = "pending"
        /\ Settle(k, [ok |-> FALSE, isNull |-> FALSE, data |-> <<>>, error |-> NetworkError])

FetchAnswersNull ==
    /\ pc = "joining"
    /\ \E k \in 1..Len(fanout) :
        /\ fanout[k].state = "pending"
        /\ Settle(k, [ok |-> TRUE, isNull |-> TRUE, data |-> <<>>, error |-> NoError])

\* Between two requests the list of projects the tracker returns changes:
\* a project is created, one that has no issue is deleted, or the order
\* changes.
BackendChanges ==
    /\ pc = "idle"
    /\ \E ps \in BackendProjectLists :
        /\ ps # backend.projects
        /\ \A i \in 1..Len(backend.issues) :
               \E k \in 1..Len(ps) : ps[k].id = backend.issues[i].projectId
        /\ backend' = [backend EXCEPT !.projects = ps]
    /\ listed' = IF listed = "current" THEN "outdated" ELSE listed
    /\ UNCHANGED <<request, pc, outbound, reply, response, fanout>>

\* The host takes the response; the server keeps nothing of the request.
Deliver ==
    /\ pc = "done"
    /\ pc' = "idle"
    /\ request' = NoRequest
    /\ outbound' = <<>>
    /\ reply' = NoReply
    /\ response' = NoResponse
    /\ fanout' = <<>>
    /\ listed' = IF request.type = "ListResources" /\ ~response.raised
                  THEN "current" ELSE listed
    /\ UNCHANGED backend

Next ==
    \/ ReceiveListTools
    \/ ReceiveCallTool
    \/ ReceiveListResources
    \/ ReceiveReadResource
    \/ BackendAnswers
    \/ NetworkFails
    \/ BackendAnswersNull
    \/ ResumeCallTool
    \/ ResumeListResources
    \/ ResumeReadResource
    \/ ReceiveListPrompts
    \/ ReceiveGetPrompt
    \/ ReceiveSearchListPrompts
    \/ ReceiveSearchGetPrompt
    \/ ResumeSearchGetPrompt
    \/ FetchAnswers
    \/ FetchFails
    \/ FetchAnswersNull
    \/ BackendChanges
    \/ Deliver

Spec == Init /\ [][Next]_vars

---------------------------------------------------------------------------
(* The server with several requests in flight.  Each handler invocation    *)
(* has its own request, calls, replies and response (the locals of the     *)
(* async callback); the invocations share the client object and the        *)
(* backend.  Here request, pc, outbound, reply, response and fanout hold   *)
(* one value per invocation.                                               *)

MaxInFlight == 2

Slots == 1..MaxInFlight

ConcurrentRequests ==
    {[type |-> "CallTool", name |-> "get_project_issues", hasArguments |-> TRUE,
      arguments |-> [projectId |-> 1], uri |-> NoUri],
     [type |-> "CallTool", name |-> "create_issue", hasArguments |-> TRUE,
      arguments |-> [projectId |-> 1, summary |-> <<"B", "u", "g">>, issueTypeId |-> 1,
                     priorityId |-> 2],
      uri |-> NoUri],
     [type |-> "ReadResource", name |-> "", hasArguments |-> FALSE, arguments |-> EmptyObj,
      uri |-> IssueUri(MaxIssues + 1)],
     PlainRequest("ListResources"),
     [type |-> "SearchGetPrompt", name |-> "search_mcp_issues", hasArguments |-> FALSE,
      arguments |-> EmptyObj, uri |-> NoUri]}

\* The handler of the request, run to its first await.
StartOf(req) ==
    CASE req.type = "CallTool" -> CallToolStart(req)
      [] req.type = "ReadResource" -> ReadResourceStart(req.uri)
      [] req.type = "ListResources" -> ListResourcesStart
      [] OTHER -> SearchPromptStart(req.name)

\* The handler of the request, run from the reply of its call on.
ResumeOf(req, rep) ==
    CASE req.type = "CallTool" -> CallToolResume(req, rep)
      [] req.type = "ReadResource" -> ReadResourceResume(req.uri, rep)
      [] OTHER -> ListResourcesResume(rep)

\* AwaitedReply taking the reply of whichever invocation was answered.
AwaitedReplyOfAny(replies, s) ==
    replies[CHOOSE t \in Slots : pc[t] = "replied"]

\* const response = await axios(...): the reply of the invocation's own call.
AwaitedReply(replies, s) == replies[s]

\* What the host receives when a handler returns or throws.
ResponseOf(r) ==
    IF r.kind = "return"
    THEN [raised |-> FALSE, result |-> r.value, error |-> NoError]
    ELSE [raised |-> TRUE, result |-> EmptyObj, error |-> r.error]

\* What the awaiting invocation receives: the payload, or the error thrown.
ReplyOf(a) ==
    IF a.ok THEN [ok |-> TRUE, isNull |-> FALSE, data |-> a.data, error |-> NoError]
    ELSE [ok |-> FALSE, isNull |-> FALSE, data |-> <<>>, error |-> a.error]

InitConcurrent ==
    /\ backend \in {b \in BackendsInit : b.projects = <<ProjectOf(2), ProjectOf(1)>>}
    /\ request = [s \in Slots |-> NoRequest]
    /\ pc = [s \in Slots |-> "idle"]
    /\ outbound = [s \in Slots |-> <<>>]
    /\ reply = [s \in Slots |-> NoReply]
    /\ response = [s \in Slots |-> NoResponse]
    /\ fanout = [s \in Slots |-> <<>>]
    /\ listed = "none"

\* Invocation s ran to the outcome r.
StepIn(s, r) ==
    IF r.kind = "await"
    THEN /\ outbound' = [outbound EXCEPT ![s] = Append(@, r.call)]
         /\ pc' = [pc EXCEPT ![s] = "awaiting"]
         /\ response' = response
    ELSE /\ outbound' = outbound
         /\ pc' = [pc EXCEPT ![s] = "done"]
         /\ response' = [response EXCEPT ![s] = ResponseOf(r)]

\* A request arrives while others may be in flight.
Accept ==
    \E s \in Slots : \E req \in ConcurrentRequests :
        /\ pc[s] = "idle"
        /\ request' = [request EXCEPT ![s] = req]
        /\ StepIn(s, StartOf(req))
        /\ UNCHANGED <<backend, reply, fanout, listed>>

\* The backend answers the call of one invocation.
Answer ==
    \E s \in Slots :
        /\ pc[s] = "awaiting"
        /\ LET a == BackendAnswer(backend, outbound[s][Len(outbound[s])])
           IN  /\ backend' = a.next
               /\ reply' = [reply EXCEPT ![s] = ReplyOf(a)]
        /\ pc' = [pc EXCEPT ![s] = "replied"]
        /\ UNCHANGED <<request, outbound, response, fanout, listed>>

\* The call of one invocation fails.
Fail ==
    \E s \in Slots :
        /\ pc[s] = "awaiting"
        /\ reply' = [reply EXCEPT ![s] = ReplyOf([ok |-> FALSE, error |-> NetworkError])]
        /\ pc' = [pc EXCEPT ![s] = "replied"]
        /\ UNCHANGED <<backend, request, outbound, response, fanout, listed>>

\* An invocation of a handler with one call continues with its reply.
Resume ==
    \E s \in Slots :
        /\ pc[s] = "replied"
        /\ request[s].type # "SearchGetPrompt"
        /\ StepIn(s, ResumeOf(request[s], AwaitedReply(reply, s)))
        /\ UNCHANGED <<backend, request, reply, fanout, listed>>

\* An invocation of the aggregation prompt continues with the project list.
ResumeSearch ==
    \E s \in Slots :
        /\ pc[s] = "replied"
        /\ request[s].type = "SearchGetPrompt"
        /\ LET rep == AwaitedReply(reply, s)
           IN  IF ~rep.ok THEN StepIn(s, Throw(rep.error)) /\ fanout' = fanout
               ELSE IF rep.data = <<>>
               THEN StepIn(s, Return(SearchPromptResult(<<>>))) /\ fanout' = fanout
               ELSE /\ fanout' = [fanout EXCEPT ![s] = FanOut(rep.data)]
                    /\ outbound' = [outbound EXCEPT
                            ![s] = @ \o MapSeq(FanOut(rep.data), LAMBDA q : q.call)]
                    /\ pc' = [pc EXCEPT ![s] = "joining"]
                    /\ response' = response
        /\ UNCHANGED <<backend, request, reply, listed>>

SettleIn(s, k, rep) ==
    LET promises == [fanout[s] EXCEPT ![k] = Settled(@, rep, NumSettled(fanout[s]) + 1)]
        r == SearchPromptJoin(promises, k)
    IN  /\ fanout' = [fanout EXCEPT ![s] = promises]
        /\ IF r.kind = "pending"
           THEN UNCHANGED <<pc, outbound, response>>
           ELSE StepIn(s, r)
        /\ UNCHANGED <<backend, request, reply, listed>>

\* One per-project fetch of one invocation is answered, or fails.
FetchAnswered ==
    \E s \in Slots : \E k \in 1..Len(fanout[s]) :
        /\ pc[s] = "joining"
        /\ fanout[s][k].state = "pending"
        /\ SettleIn(s, k, ReplyOf(BackendAnswer(backend, fanout[s][k].call)))

FetchFailure ==
    \E s \in Slots : \E k \in 1..Len(fanout[s]) :
        /\ pc[s] = "joining"
        /\ fanout[s][k].state = "pending"
        /\ SettleIn(s, k, ReplyOf([ok |-> FALSE, error |-> NetworkError]))

\* The host takes the response of one invocation.
HandOver ==
    \E s \in Slots :
        /\ pc[s] = "done"
        /\ pc' = [pc EXCEPT ![s] = "idle"]
        /\ request' = [request EXCEPT ![s] = NoRequest]
        /\ outbound' = [outbound EXCEPT ![s] = <<>>]
        /\ reply' = [reply EXCEPT ![s] = NoReply]
        /\ response' = [response EXCEPT ![s] = NoResponse]
        /\ fanout' = [fanout EXCEPT ![s] = <<>>]
        /\ UNCHANGED <<backend, listed>>

NextConcurrent ==
    \/ Accept
    \/ Answer
    \/ Fail
    \/ Resume
    \/ ResumeSearch
    \/ FetchAnswered
    \/ FetchFailure
    \/ HandOver

SpecConcurrent == InitConcurrent /\ [][NextConcurrent]_vars

---------------------------------------------------------------------------
(* Properties.                                                             *)

ToolDone == pc = "done" /\ request.type = "CallTool"
ReadDone == pc = "done" /\ request.type = "ReadResource"

\* The JSON object in the single text item of a tool's response.
ToolBody == response.result.content[1].text

IsSoftError(message) == ~response.raised /\ ToolBody = [error |-> message]

\* C1: every CallTool request, whatever its name, its arguments and the
\* backend's answer, completes with a normal response holding one text
\* item, and whenever an exception was thrown in the handler (by the
\* checks before the call, by the failed call, by a null payload) the body
\* is {error: <message of that exception>}; nothing is raised to the host.
C1_ToolFailuresAreSoft ==
    ToolDone =>
        /\ ~response.raised
        /\ Len(response.result.content) = 1
        /\ response.result.content[1].type = "text"
        /\ (outbound = <<>> /\ CallToolTry(request).kind = "throw")
              => ToolBody = [error |-> CallToolTry(request).error.message]
        /\ (outbound # <<>> /\ ~reply.ok) => ToolBody = [error |-> reply.error.message]
        /\ (outbound # <<>> /\ reply.ok /\ reply.isNull)
              => ToolBody = [error |-> NullPayload.message]

C1_Witness ==
    /\ ToolDone
    /\ request.name = "create_issue"
    /\ outbound # <<>>
    /\ ~reply.ok
    /\ IsSoftError(NetworkError.message)

\* C2 as stated: every invocation of a name that is not in the registry
\* answers {error: "Unknown tool: <name>"} and calls no backend.
C2_UnknownToolAlways ==
    (ToolDone /\ request.name \notin ToolNames) =>
        /\ IsSoftError(<<"Unknown tool: ", request.name>>)
        /\ outbound = <<>>

\* C2 amended: an invocation, with an arguments object, of a name that is
\* not in the registry answers {error: "Unknown tool: <name>"} in a normal
\* response and calls no backend.
C2_UnknownToolWithArguments ==
    (ToolDone /\ request.name \notin ToolNames /\ request.hasArguments) =>
        /\ IsSoftError(<<"Unknown tool: ", request.name>>)
        /\ outbound = <<>>

C2_Witness ==
    /\ ToolDone
    /\ request.name = "frobnicate"
    /\ request.hasArguments
    /\ IsSoftError(<<"Unknown tool: ", "frobnicate">>)

\* C7: a CallTool request without an arguments object answers
\* {error: "No arguments provided"} for every tool name, registered or not,
\* and calls no backend.
C7_ArgumentsCheckedFirst ==
    (ToolDone /\ ~request.hasArguments) =>
        /\ IsSoftError(<<"No arguments provided">>)
        /\ outbound = <<>>

C7_Witness ==
    /\ ToolDone
    /\ ~request.hasArguments
    /\ request.name = "list_projects"
    /\ IsSoftError(<<"No arguments provided">>)


\* The registry's descriptor of the requested tool.
Descriptor(name) ==
    LET k == CHOOSE j \in 1..Len(ListToolsResult.tools) : ListToolsResult.tools[j].name = name
    IN  ListToolsResult.tools[k]

RequiredOf(name) ==
    {Descriptor(name).required[k] : k \in 1..Len(Descriptor(name).required)}

NumericArguments == {"projectId", "issueTypeId", "priorityId", "issueId"}

\* The argument is given, with a non-zero number or a non-empty string.
Given(args, f) ==
    IF f \in NumericArguments THEN ~MissingNum(args, f) ELSE ~MissingStr(args, f)

Mentions(message, word) == \E k \in 1..Len(message) : message[k] = word

\* C3: for every registered tool and every required field of its schema,
\* an invocation in which exactly that field is absent and every other
\* required field is given answers an error whose message names the field.
C3_MissingFieldIsNamed ==
    (ToolDone /\ request.hasArguments /\ request.name \in ToolNames) =>
        \A f \in RequiredOf(request.name) :
            (/\ ~Has(request.arguments, f)
             /\ \A g \in RequiredOf(request.name) \ {f} : Given(request.arguments, g))
            => /\ ~response.raised
               /\ Has(ToolBody, "error")
               /\ Mentions(ToolBody.error, f)

\* The suggestion sets of the table of tools: tool -> names of its links.
TableLinks(name) ==
    CASE name = "list_projects" ->
            {"get_project_details", "get_project_issues", "create_issue"}
      [] name = "get_project_details" -> {"get_project_issues", "create_issue"}
      [] name \in {"get_project_issues", "create_issue"} ->
            {"get_issue_details", "get_issue_comments", "create_issue_comment"}
      [] name = "get_issue_details" -> {"get_issue_comments", "create_issue_comment"}
      [] name = "get_issue_comments" -> {"create_issue_comment"}
      [] OTHER -> {"get_issue_comments"}

ListTools == {"list_projects", "get_project_issues", "get_issue_comments"}

ListField(name) ==
    CASE name = "list_projects" -> "projects"
      [] name = "get_project_issues" -> "issues"
      [] OTHER -> "comments"

\* The entities of a tool's body and of the backend's payload, in order.
BodyEntities(name, body) == IF name \in ListTools THEN body[ListField(name)] ELSE <<body>>
PayloadEntities(name, data) == IF name \in ListTools THEN data ELSE <<data>>

Without(obj, k) == [x \in DOMAIN obj \ {k} |-> obj[x]]

BackendSucceeded == outbound # <<>> /\ reply.ok /\ ~reply.isNull
BackendFailed == outbound # <<>> /\ ~(reply.ok /\ ~reply.isNull)

\* C4: every registered tool, invoked with all its required fields given,
\* against a backend that does not fail, answers a body that is no error
\* and holds every entity of the backend with its fields unchanged plus
\* _links.tools with exactly the keys of the table.
C4_SuccessShape ==
    (/\ ToolDone /\ request.hasArguments /\ request.name \in ToolNames
     /\ \A f \in RequiredOf(request.name) : Given(request.arguments, f)
     /\ ~BackendFailed)
    => /\ ~response.raised
       /\ ~Has(ToolBody, "error")
       /\ (request.name \in ListTools => ToolBody.total = Len(reply.data))
       /\ LET es == BodyEntities(request.name, ToolBody)
              bs == PayloadEntities(request.name, reply.data)
          IN  /\ Len(es) = Len(bs)
              /\ \A k \in 1..Len(es) :
                    /\ Without(es[k], "_links") = bs[k]
                    /\ DOMAIN es[k]._links = {"tools"}
                    /\ DOMAIN es[k]._links.tools = TableLinks(request.name)

\* The id a suggestion is filled with (as a number).
SuggestedId(s) ==
    LET a == IF Has(s, "arguments") THEN s.arguments ELSE s.template
    IN  IF Has(a, "projectIdOrKey") THEN parseInt(a.projectIdOrKey)
        ELSE IF Has(a, "issueIdOrKey") THEN parseInt(a.issueIdOrKey)
        ELSE IF Has(a, "issueId") THEN a.issueId
        ELSE a.projectId

ToolSucceeded == ToolDone /\ BackendSucceeded /\ ~response.raised /\ ~Has(ToolBody, "error")

CreateIssueAccepted ==
    /\ ToolDone /\ request.name = "create_issue" /\ request.hasArguments
    /\ \A f \in RequiredOf("create_issue") : Given(request.arguments, f)
    /\ BackendSucceeded

CreateIssueChains ==
    CreateIssueAccepted =>
        /\ ~response.raised
        /\ ~Has(ToolBody, "error")
        /\ ToolBody._links.tools.create_issue_comment.template
              = [issueId |-> reply.data.id, content |-> <<>>]

\* C5 as stated: create_issue answers a comment template filled with the
\* created issue's id, and every suggestion attached to an entity of any
\* tool's body is filled with the id of that entity, as the backend gave it.
C5_SuggestionsCarryEntityId ==
    /\ CreateIssueChains
    /\ ToolSucceeded =>
          LET es == BodyEntities(request.name, ToolBody)
              bs == PayloadEntities(request.name, reply.data)
          IN  \A k \in 1..Len(es) : \A t \in DOMAIN es[k]._links.tools :
                  SuggestedId(es[k]._links.tools[t]) = bs[k].id

\* C5 amended: create_issue answers a comment template filled with the
\* created issue's id; every suggestion attached to a project or an issue
\* is filled with that entity's id as the backend gave it; the suggestion
\* attached to a comment is filled with the issueId argument of the request.
C5_SuggestionsCarryTargetId ==
    /\ CreateIssueChains
    /\ ToolSucceeded =>
          LET es == BodyEntities(request.name, ToolBody)
              bs == PayloadEntities(request.name, reply.data)
          IN  \A k \in 1..Len(es) : \A t \in DOMAIN es[k]._links.tools :
                  SuggestedId(es[k]._links.tools[t])
                     = IF request.name = "get_issue_comments"
                       THEN request.arguments.issueId
                       ELSE bs[k].id

C5_Witness ==
    /\ CreateIssueAccepted
    /\ ~response.raised
    /\ reply.data.id = MaxIssues + 1
    /\ ToolBody._links.tools.create_issue_comment.template
          = [issueId |-> MaxIssues + 1, content |-> <<>>]

\* C6: ListTools lists list_projects with no required argument, and a
\* list_projects call that got the backend's projects answers {total,
\* projects}: total is their number, and projects holds each of them, in
\* the backend's order, with id, projectKey, name and description unchanged
\* plus _links.tools.
C6_ListProjects ==
    /\ (pc = "done" /\ request.type = "ListTools") =>
          /\ ~response.raised
          /\ \E k \in 1..Len(response.result.tools) :
                /\ response.result.tools[k].name = "list_projects"
                /\ response.result.tools[k].required = <<>>
    /\ (ToolDone /\ request.name = "list_projects" /\ BackendSucceeded) =>
          /\ ~response.raised
          /\ DOMAIN ToolBody = {"total", "projects"}
          /\ ToolBody.total = Len(reply.data)
          /\ Len(ToolBody.projects) = Len(reply.data)
          /\ \A k \in 1..Len(reply.data) :
                /\ \A f \in {"id", "projectKey", "name", "description"} :
                      /\ Has(ToolBody.projects[k], f)
                      /\ ToolBody.projects[k][f] = reply.data[k][f]
                /\ Has(ToolBody.projects[k], "_links")
                /\ Has(ToolBody.projects[k]._links, "tools")

C6_Witness ==
    /\ ToolDone /\ request.name = "list_projects" /\ BackendSucceeded
    /\ ~response.raised
    /\ ToolBody.total = 2
    /\ ToolBody.projects[1].id = 2
    /\ ToolBody.projects[2].projectKey = ProjectKeyOf(1)


RaisedWith(code) ==
    /\ response.raised
    /\ response.error.class = "McpError"
    /\ response.error.code = code
    /\ response.result = EmptyObj

ResourceKinds == {<<"projects">>, <<"project">>, <<"issue">>}

SubresourceOf(kind) == IF kind = <<"project">> THEN <<"issues">> ELSE <<"comments">>

\* The URI names no payload: its first segment is no resource kind, or it
\* is 'issue' alone, or it is 'project' or 'issue' with an id and a third
\* segment that is not the kind's sub-resource.
SelectsNoPayload(paths) ==
    \/ paths[1] \notin ResourceKinds
    \/ paths = << <<"issue">> >>
    \/ /\ paths[1] \in {<<"project">>, <<"issue">>}
       /\ Len(paths) >= 3
       /\ paths[2] # <<>>
       /\ paths[3] # SubresourceOf(paths[1])

\* C8: ReadResource on a URI whose first segment is none of projects,
\* project, issue, or whose remaining segments select no payload, raises
\* the not-found error (ErrorCode.MethodNotFound) to the host, returns no
\* contents and calls no backend.
C8_UnknownResourceNotFound ==
    (ReadDone /\ SelectsNoPayload(Paths(request.uri))) =>
        /\ RaisedWith("MethodNotFound")
        /\ response.error.message = <<"Resource ">> \o request.uri \o <<" not found">>
        /\ outbound = <<>>

C8_Witness ==
    /\ ReadDone
    /\ request.uri = Uri(<<"issue", "/", "1", "/", "foo">>)
    /\ RaisedWith("MethodNotFound")

\* C9: ReadResource on a 'project' URI without an id segment raises
\* InvalidRequest ('Project ID is required') to the host, with that kind,
\* and calls no backend.
C9_ProjectIdRequired ==
    (/\ ReadDone
     /\ Paths(request.uri)[1] = <<"project">>
     /\ (Len(Paths(request.uri)) = 1 \/ Paths(request.uri)[2] = <<>>))
    => /\ RaisedWith("InvalidRequest")
       /\ response.error.message = <<"Project ID is required">>
       /\ outbound = <<>>

C9_Witness ==
    /\ ReadDone
    /\ request.uri = Uri(<<"project", "/">>)
    /\ RaisedWith("InvalidRequest")
    /\ outbound = <<>>

\* The payload ReadResource serves for uri against the present backend.
Refetched(uri) ==
    LET r == ReadResourceStart(uri)
    IN  IF r.kind # "await" THEN [served |-> FALSE, content |-> EmptyObj]
        ELSE LET a == BackendAnswer(backend, r.call)
             IN  IF ~a.ok THEN [served |-> FALSE, content |-> EmptyObj]
                 ELSE [served |-> TRUE,
                       content |-> ReadResourceContent(Paths(uri), a.data)]

\* The entities of a resource payload that carry _links.self.
LinkedEntities(paths, content) ==
    IF paths[1] = <<"projects">> THEN content.projects
    ELSE IF Len(paths) = 2 THEN <<content>>
    ELSE IF paths[1] = <<"project">> THEN content.issues
    ELSE content.comments

\* C10: in every payload ReadResource returns, the _links.self of every
\* entity (the payload itself, or each entry of a list payload) is a URI
\* that ReadResource serves and whose payload is that entity (same id and
\* same fields).
C10_SelfLinksRefetch ==
    (ReadDone /\ ~response.raised) =>
        LET content == response.result.contents[1].text
            es == LinkedEntities(Paths(request.uri), content)
        IN  \A k \in 1..Len(es) :
                LET again == Refetched(es[k]._links.self)
                IN  /\ again.served
                    /\ Has(again.content, "id")
                    /\ again.content.id = es[k].id
                    /\ \A f \in (DOMAIN es[k] \ {"_links", "key"}) :
                          /\ Has(again.content, f)
                          /\ again.content[f] = es[k][f]

\* One of the five path shapes: projects, project/<id>, project/<id>/issues,
\* issue/<id>, issue/<id>/comments, with a non-empty <id>.
FivePathShapes(paths) ==
    \/ paths = << <<"projects">> >>
    \/ /\ Len(paths) \in {2, 3}
       /\ paths[1] \in {<<"project">>, <<"issue">>}
       /\ paths[2] # <<>>
       /\ Len(paths) = 3 => paths[3] = SubresourceOf(paths[1])

\* C11: ReadResource serves exactly the five path shapes: on a URI of any
\* other shape (an additional segment, a differently-cased segment) it
\* returns no payload.
C11_ExactPathShapes ==
    (ReadDone /\ ~FivePathShapes(Paths(request.uri))) =>
        /\ response.raised
        /\ response.result = EmptyObj

\* The issue list of a resource payload holds only issues of a project
\* named x (by id or by key).
OnlyIssuesOf(content, x) ==
    \A k \in 1..Len(content.issues) :
        \E j \in 1..Len(ProjectsMatching(backend, x)) :
            content.issues[k]._links.project = ProjectUri(ProjectsMatching(backend, x)[j].id)

IsIssueListCall(call) ==
    call.method = "get" /\ call.url = BaseUrl \o <<"/", "issues">>

\* C12: ReadResource on project/<x>/issues, x any non-empty segment, asks
\* the backend for the issue list filtered by that project, never for the
\* unfiltered list, and the payload holds no issue of another project.
C12_ProjectIssuesFiltered ==
    (/\ ReadDone
     /\ Len(Paths(request.uri)) = 3
     /\ Paths(request.uri)[1] = <<"project">>
     /\ Paths(request.uri)[2] # <<>>
     /\ Paths(request.uri)[3] = <<"issues">>)
    => /\ Len(outbound) = 1
       /\ IsIssueListCall(outbound[1])
       /\ Has(outbound[1].params, "projectId[]")
       /\ ~response.raised =>
             OnlyIssuesOf(response.result.contents[1].text, Paths(request.uri)[2])

\* The calls of getIssues the request in progress has made, and the project
\* id each was made with: the tool's argument, the parsed URI segment, or
\* the id of each project of the prompt's project list.
IssueListCalls == SelectSeq(outbound, IsIssueListCall)

SuppliedProjectIds ==
    CASE request.type = "CallTool" -> <<request.arguments.projectId>>
      [] request.type = "ReadResource" -> <<parseInt(Paths(request.uri)[2])>>
      [] OTHER -> MapSeq(reply.data, LAMBDA project : project.id)

\* C13: every GET /issues that getIssues sends for a project id carries the
\* id under the name projectId[], never under projectId, next to the API
\* key and nothing else; the filter is missing only when the value passed
\* was no project id (NaN or 0).
C13_ProjectIdIsMultiValue ==
    IssueListCalls # <<>> =>
        /\ Len(IssueListCalls) = Len(SuppliedProjectIds)
        /\ \A k \in 1..Len(IssueListCalls) :
            LET params == IssueListCalls[k].params
                id == SuppliedProjectIds[k]
            IN  /\ Has(params, "apiKey") /\ params.apiKey = ApiKey
                /\ ~Has(params, "projectId")
                /\ DOMAIN params \subseteq {"apiKey", "projectId[]"}
                /\ id \in ProjectIds => Has(params, "projectId[]")
                /\ Has(params, "projectId[]") => params["projectId[]"] = id
                /\ ~Has(params, "projectId[]") => id \in {NaN, 0}

C13_Witness ==
    /\ ToolDone
    /\ request.name = "get_project_issues"
    /\ Has(request.arguments, "projectId")
    /\ request.arguments.projectId = MaxProjects
    /\ Len(outbound) = 1
    /\ outbound[1].params = ("projectId[]" :> MaxProjects) @@ ("apiKey" :> ApiKey)
    /\ ~response.raised

ListDone == pc = "done" /\ request.type = "ListResources"

\* C14: when the backend call of ListResources or ReadResource fails (an
\* HTTP error, a network error, a body that is no payload), the request
\* ends with InternalError raised to the host and no result; a request
\* that ends with a result had its call answered; and a typed protocol
\* error raised before any call (InvalidRequest, MethodNotFound) reaches
\* the host with its kind.
C14_BackendFailureIsInternalError ==
    (ListDone \/ ReadDone) =>
        /\ (outbound # <<>> /\ BackendFailed) => RaisedWith("InternalError")
        /\ ~response.raised => (Len(outbound) = 1 /\ BackendSucceeded)
        /\ (ReadDone /\ outbound = <<>>) =>
              IF /\ Paths(request.uri)[1] = <<"project">>
                 /\ (Len(Paths(request.uri)) = 1 \/ Paths(request.uri)[2] = <<>>)
              THEN RaisedWith("InvalidRequest")
              ELSE RaisedWith("MethodNotFound")

C14_Witness ==
    /\ ListDone
    /\ Len(outbound) = 1
    /\ reply.error = NetworkError
    /\ RaisedWith("InternalError")
    /\ response.error.message = <<"Failed to fetch Backlog resources">>

\* C15: a ListResources result is the descriptor of backlog:///projects
\* followed by one descriptor per project the backend holds now, in the
\* backend's order, with uri backlog:///project/<id> and the project's
\* present name; this also after the project list has changed since the
\* host's previous listing.
C15_ListResourcesIsLive ==
    (ListDone /\ ~response.raised) =>
        LET resources == response.result.resources
        IN  /\ Len(resources) = 1 + Len(backend.projects)
            /\ resources[1].uri = <<"backlog:", "/", "/", "/", "projects">>
            /\ \A k \in 1..Len(backend.projects) :
                  /\ resources[k + 1].uri =
                        <<"backlog:", "/", "/", "/", "project", "/">>
                        \o NumToStr(backend.projects[k].id)
                  /\ resources[k + 1].name = backend.projects[k].name

C15_Witness ==
    /\ ListDone
    /\ ~response.raised
    /\ listed = "outdated"
    /\ Len(response.result.resources) = 1 + MaxProjects
    /\ Len(backend.projects) = MaxProjects

\* The registries as written in the handlers: each tool with its required
\* fields, and the prompt names of either revision.
RegisteredTools ==
    << <<"list_projects", <<>> >>,
       <<"get_project_details", <<"projectIdOrKey">> >>,
       <<"get_project_issues", <<"projectId">> >>,
       <<"get_issue_details", <<"issueIdOrKey">> >>,
       <<"get_issue_comments", <<"issueId">> >>,
       <<"create_issue", <<"projectId", "summary", "issueTypeId", "priorityId">> >>,
       <<"create_issue_comment", <<"issueId", "content">> >> >>

RegisteredPrompts(type) ==
    IF type = "ListPrompts"
    THEN <<"analyze_project_issues", "summarize_issue_discussion">>
    ELSE <<"search_mcp_issues">>

\* C16: whatever requests came before (tool calls that created an issue or
\* failed, changes of the backend), ListTools answers the same seven
\* descriptors and ListPrompts the same prompt descriptors, in the same
\* order, and neither makes a backend call.
C16_ListingsAreStatic ==
    (pc = "done" /\ request.type \in {"ListTools", "ListPrompts", "SearchListPrompts"}) =>
        /\ ~response.raised
        /\ outbound = <<>>
        /\ reply = NoReply
        /\ IF request.type = "ListTools"
           THEN /\ DOMAIN response.result = {"tools"}
                /\ MapSeq(response.result.tools, LAMBDA t : <<t.name, t.required>>)
                     = RegisteredTools
           ELSE /\ DOMAIN response.result = {"prompts"}
                /\ MapSeq(response.result.prompts, LAMBDA q : q.name)
                     = RegisteredPrompts(request.type)

C16_Witness ==
    /\ pc = "done"
    /\ request.type = "ListTools"
    /\ \E k \in 1..Len(backend.issues) : backend.issues[k].id > MaxIssues
    /\ backend.projects = <<ProjectOf(1)>>
    /\ Len(response.result.tools) = 7

PromptDone == pc = "done" /\ request.type \in {"GetPrompt", "SearchGetPrompt"}

\* The names ListPrompts lists, for the handler pair the request went to.
ListedPrompts(type) ==
    LET prompts == IF type = "GetPrompt" THEN ListPromptsResult.prompts
                   ELSE SearchListPromptsResult.prompts
    IN  {prompts[k].name : k \in 1..Len(prompts)}

\* A backend call of the aggregation prompt has failed.
FetchFailed ==
    \/ BackendFailed
    \/ \E k \in 1..Len(fanout) : fanout[k].state = "rejected"

IsMessageSequence(result) ==
    /\ DOMAIN result = {"messages"}
    /\ Len(result.messages) >= 1
    /\ \A k \in 1..Len(result.messages) :
          /\ result.messages[k].role \in {"system", "user"}
          /\ result.messages[k].content.type \in {"text", "resource"}

\* C17: GetPrompt with a name ListPrompts does not list raises the
\* not-found error (ErrorCode.MethodNotFound) to the host without having
\* made any backend call; with a name ListPrompts lists it is never
\* answered not-found and returns a message sequence, unless a backend
\* fetch of the prompt failed.
C17_UnknownPromptNotFound ==
    /\ (request.type \in {"GetPrompt", "SearchGetPrompt"}
        /\ request.name \notin ListedPrompts(request.type)) => outbound = <<>>
    /\ PromptDone =>
          IF request.name \notin ListedPrompts(request.type)
          THEN /\ RaisedWith("MethodNotFound")
               /\ response.error.message = <<"Unknown prompt">>
          ELSE /\ ~RaisedWith("MethodNotFound")
               /\ response.raised => FetchFailed
               /\ ~response.raised => IsMessageSequence(response.result)

C17_Witness ==
    /\ PromptDone
    /\ request.type = "SearchGetPrompt"
    /\ request.name = "analyze_project_issues"
    /\ RaisedWith("MethodNotFound")
    /\ outbound = <<>>

SearchDone ==
    pc = "done" /\ request.type = "SearchGetPrompt" /\ request.name = "search_mcp_issues"

\* The text holds the letters m, c, p in a row, in either case.
ContainsMcp(text) ==
    \E k \in 1..(Len(text) - 2) :
        /\ text[k] \in {"m", "M"}
        /\ text[k + 1] \in {"c", "C"}
        /\ text[k + 2] \in {"p", "P"}

\* The ids of the issues of the backend's projects that mention the keyword.
McpIssueIds ==
    {backend.issues[k].id : k \in
        {j \in 1..Len(backend.issues) :
            /\ \E q \in 1..Len(backend.projects) :
                  backend.projects[q].id = backend.issues[j].projectId
            /\ \/ ContainsMcp(backend.issues[j].summary)
               \/ ContainsMcp(backend.issues[j].description)}}

\* The messages between the first and the last.
Embedded(messages) == SubSeq(messages, 2, Len(messages) - 1)

\* C18: the aggregation prompt answers the opening instruction, then one
\* resource message per issue of the backend's projects whose summary or
\* description contains 'mcp' in any case (all of them, each once, no
\* other issue), each with uri backlog:///issue/<id>, then the closing
\* instruction.
C18_AggregationPrompt ==
    (SearchDone /\ ~response.raised) =>
        LET messages == response.result.messages
            embedded == Embedded(messages)
        IN  /\ Len(messages) >= 2
            /\ messages[1] = OpeningInstruction
            /\ messages[Len(messages)] = ClosingInstruction
            /\ OpeningInstruction # ClosingInstruction
            /\ \A k \in 1..Len(embedded) :
                  /\ embedded[k].role = "user"
                  /\ embedded[k].content.type = "resource"
            /\ {embedded[k].content.resource.uri : k \in 1..Len(embedded)}
                 = {<<"backlog:", "/", "/", "/", "issue", "/">> \o NumToStr(i) :
                        i \in McpIssueIds}
            /\ Len(embedded) = Cardinality(McpIssueIds)

C18_Witness ==
    /\ SearchDone
    /\ ~response.raised
    /\ Len(response.result.messages) = 4
    /\ Len(backend.issues) = 3
    /\ \E k \in 1..3 : backend.issues[k].id \notin McpIssueIds
    /\ \E j, k \in 1..3 :
          /\ {backend.issues[j].id, backend.issues[k].id} = McpIssueIds
          /\ backend.issues[j].projectId # backend.issues[k].projectId

\* The path a state-changing tool posts to.
PostPathOf(name, args) ==
    IF name = "create_issue" THEN <<"/", "issues">>
    ELSE <<"/", "issues", "/">> \o NumToStr(args.issueId) \o <<"/", "comments">>

\* C19: a valid invocation of create_issue or create_issue_comment (every
\* required field given) has sent exactly one request to the backend: a
\* POST to /issues, respectively /issues/<issueId>/comments, with the
\* payload as the body and the API key as the only query parameter.
C19_CreateToolsPostOnce ==
    (/\ ToolDone
     /\ request.name \in {"create_issue", "create_issue_comment"}
     /\ request.hasArguments
     /\ \A f \in RequiredOf(request.name) : Given(request.arguments, f))
    => /\ Len(outbound) = 1
       /\ outbound[1].method = "post"
       /\ outbound[1].url = BaseUrl \o PostPathOf(request.name, request.arguments)
       /\ outbound[1].params = ("apiKey" :> ApiKey)
       /\ outbound[1].hasData
       /\ IF request.name = "create_issue"
          THEN outbound[1].data = request.arguments
          ELSE /\ Has(outbound[1].data, "content")
               /\ outbound[1].data.content = request.arguments.content

\* The ids of the issues embedded in the prompt's answer, in their order.
EmbeddedUris ==
    MapSeq(Embedded(response.result.messages), LAMBDA m : m.content.resource.uri)

UrisOf(issues) == MapSeq(issues, LAMBDA i : IssueUri(i.id))

\* The matching issues of project p, in the backend's order.
McpIssuesOf(p) ==
    SelectSeq(backend.issues, LAMBDA i :
        /\ i.projectId = p.id
        /\ ContainsMcp(i.summary) \/ ContainsMcp(i.description))

\* C20 as stated: the embedded issues come in the order in which the
\* per-project fetches resolved.
C20_OrderIsSettlingOrder ==
    (SearchDone /\ ~response.raised /\ fanout # <<>>) =>
        EmbeddedUris = UrisOf(Flat(MapSeq(InSettlingOrder(fanout), LAMBDA q : q.value)))

\* C20: the embedded issues come in the order of the backend's project
\* list, and within a project in the order of its issue list, in whatever
\* order the per-project fetches resolved.
C20_OrderIsProjectOrder ==
    (SearchDone /\ ~response.raised) =>
        EmbeddedUris = UrisOf(Flat(MapSeq(backend.projects, McpIssuesOf)))

C20_Witness ==
    /\ SearchDone
    /\ ~response.raised
    /\ Len(fanout) = 2
    /\ fanout[1].rank = 2
    /\ fanout[2].rank = 1
    /\ fanout[1].value # <<>>
    /\ fanout[2].value # <<>>
    /\ EmbeddedUris = UrisOf(fanout[1].value \o fanout[2].value)

SearchRequested == request.type = "SearchGetPrompt" /\ request.name = "search_mcp_issues"

\* C21: in the aggregation prompt every per-project fetch is in flight
\* before any has settled, no result exists while one is pending, a result
\* is produced only when all are fulfilled, and when the project-list
\* fetch or any per-project fetch fails, in whatever order the fetches
\* settle, the request ends raised, without a message sequence.
C21_AllOrNothing ==
    SearchRequested =>
        /\ pc = "joining" =>
              /\ Len(fanout) = Len(reply.data)
              /\ Len(outbound) = 1 + Len(fanout)
              /\ \A k \in 1..Len(fanout) : outbound[1 + k] = fanout[k].call
              /\ response = NoResponse
        /\ (pc = "done" /\ FetchFailed) =>
              /\ response.raised
              /\ response.result = EmptyObj
        /\ (pc = "done" /\ ~response.raised) =>
              /\ BackendSucceeded
              /\ Len(fanout) = Len(reply.data) \/ reply.data = <<>>
              /\ \A k \in 1..Len(fanout) : fanout[k].state = "fulfilled"

C21_Witness ==
    /\ SearchDone
    /\ Len(fanout) = 2
    /\ fanout[2].state = "fulfilled"
    /\ fanout[2].value # <<>>
    /\ fanout[2].rank = 1
    /\ fanout[1].state = "rejected"
    /\ response.raised
    /\ response.error = fanout[1].error

\* The invocation lacks the arguments object, or a required field of the
\* tool it names (absent, zero or empty).
RejectedInput ==
    /\ request.type = "CallTool"
    /\ \/ ~request.hasArguments
       \/ /\ request.name \in ToolNames
          /\ \E f \in RequiredOf(request.name) : ~Given(request.arguments, f)

\* The tool's answer is one of the argument-validation errors.
IsValidationError ==
    /\ ToolDone
    /\ ~response.raised
    /\ DOMAIN ToolBody = {"error"}
    /\ \/ ToolBody.error = <<"No arguments provided">>
       \/ ToolBody.error[1] = "Missing required argument: "
       \/ ToolBody.error = <<"Missing required arguments for issue creation">>
       \/ ToolBody.error = <<"Missing required arguments for comment creation">>

\* C22: a tool invocation that lacks its arguments object or a required
\* field ends at once with a validation error, and an invocation that
\* ends with a validation error has issued no backend request and received
\* no reply, so the backend was not reached.
C22_ValidationBeforeBackend ==
    /\ RejectedInput =>
          /\ IsValidationError
          /\ outbound = <<>>
          /\ reply = NoReply
    /\ IsValidationError =>
          /\ RejectedInput
          /\ outbound = <<>>
          /\ reply = NoReply

C22_Witness ==
    /\ IsValidationError
    /\ request.name = "create_issue"
    /\ request.arguments = [projectId |-> 1, issueTypeId |-> 1, priorityId |-> 2]
    /\ outbound = <<>>
    /\ Len(backend.issues) = MaxIssues

\* The invocation a suggestion stands for: its name with its arguments, or
\* with its template, as they are.
InvocationOf(s) ==
    [type |-> "CallTool", name |-> s.name, hasArguments |-> TRUE,
     arguments |-> IF Has(s, "arguments") THEN s.arguments ELSE s.template,
     uri |-> NoUri]

\* The backend request that reads the entity id for the tool name.
TargetRequest(name, id) ==
    [method |-> "get",
     url |-> BaseUrl \o
        (CASE name = "get_project_details" -> <<"/", "projects", "/">> \o NumToStr(id)
           [] name = "get_project_issues" -> <<"/", "issues">>
           [] name = "get_issue_details" -> <<"/", "issues", "/">> \o NumToStr(id)
           [] OTHER -> <<"/", "issues", "/">> \o NumToStr(id) \o <<"/", "comments">>),
     params |-> IF name = "get_project_issues"
                THEN ("apiKey" :> ApiKey) @@ ("projectId[]" :> id)
                ELSE ("apiKey" :> ApiKey),
     hasData |-> FALSE,
     data |-> EmptyObj]

\* C23: every suggestion in a tool's result names a tool that ListTools
\* lists and that CallTool does not answer as unknown; and a suggestion
\* with concrete arguments, attached to an entity with a positive id and
\* invoked as it is, passes the argument validation and sends the backend
\* the request that reads that same entity.
C23_SuggestionsChain ==
    ToolSucceeded =>
        LET es == BodyEntities(request.name, ToolBody)
            bs == PayloadEntities(request.name, reply.data)
        IN  \A k \in 1..Len(es) : \A t \in DOMAIN es[k]._links.tools :
                LET s == es[k]._links.tools[t]
                    r == CallToolStart(InvocationOf(s))
                IN  /\ s.name = t
                    /\ \E j \in 1..Len(ListToolsResult.tools) :
                          ListToolsResult.tools[j].name = s.name
                    /\ r # CallToolStart([InvocationOf(s) EXCEPT !.name = "frobnicate"])
                    /\ (r.kind = "return") =>
                          r.value.content[1].text.error # <<"Unknown tool: ", s.name>>
                    /\ (Has(s, "arguments") /\ bs[k].id > 0) =>
                          /\ r.kind = "await"
                          /\ r.call = TargetRequest(s.name, bs[k].id)

C23_Witness ==
    /\ ToolSucceeded
    /\ request.name = "create_issue"
    /\ ToolBody.id > MaxIssues
    /\ ToolBody._links.tools.get_issue_details.arguments
         = [issueIdOrKey |-> NumToStr(ToolBody.id)]
    /\ CallToolStart(InvocationOf(ToolBody._links.tools.get_issue_comments)).kind = "await"

\* The error Promise.all rejects with: that of the promise rejected first.
FirstRejection(promises) ==
    LET rejected == {k \in 1..Len(promises) : promises[k].state = "rejected"}
    IN  promises[CHOOSE k \in rejected :
                    \A j \in rejected : promises[k].rank <= promises[j].rank].error

\* The outcome of the handler of req when it runs alone and its calls get
\* the answers rep (first call) and promises (per-project fetches).
SoloOutcome(req, rep, promises) ==
    IF StartOf(req).kind # "await" THEN StartOf(req)
    ELSE IF req.type # "SearchGetPrompt" THEN ResumeOf(req, rep)
    ELSE IF ~rep.ok THEN Throw(rep.error)
    ELSE IF rep.data = <<>> THEN Return(SearchPromptResult(<<>>))
    ELSE IF \E k \in 1..Len(promises) : promises[k].state = "rejected"
    THEN Throw(FirstRejection(promises))
    ELSE Return(SearchPromptResult(PromiseAllValues(promises)))

====
